---- MODULE Spec2Model ----
(***************************************************************************)
(* Model of strict_output (src/src/lib/gpt.ts): the structured-output      *)
(* request / sanitize / validate / retry helper.                           *)
(*                                                                         *)
(* Text is modelled as a sequence of tokens (a token stands for one        *)
(* character or for one run of characters that the code never looks        *)
(* into).  JSON values are tagged records:                                 *)
(*   [t |-> "str",   v |-> <<tokens>>]        a string                     *)
(*   [t |-> "num",   v |-> <<token>>]         a number                     *)
(*   [t |-> "lit",   v |-> <<token>>]         null / true / false          *)
(*   [t |-> "arr",   v |-> <<values>>]        an array                     *)
(*   [t |-> "obj",   v |-> <<[k, val]>>]      an object, insertion order   *)
(*   [t |-> "undef", v |-> <<>>]              JavaScript's undefined       *)
(* Shape keys are assumed not to collide with Object.prototype names.      *)
(***************************************************************************)
EXTENDS Integers, Sequences, FiniteSets, TLC

\* ------------------------------------------------------------------ text

WS == {" ", "\n"}
Digits == {"0", "1", "2", "5"}
Literals == {"null", "true", "false"}
\* "FENCE_JSON" stands for three backquotes followed by json, "FENCE" for
\* three backquotes: the two alternatives of the code-fence pattern
Fences == {"FENCE_JSON", "FENCE"}

Str(s) == [t |-> "str", v |-> s]
Num(s) == [t |-> "num", v |-> s]
Lit(s) == [t |-> "lit", v |-> s]
Arr(s) == [t |-> "arr", v |-> s]
Obj(s) == [t |-> "obj", v |-> s]
Undefined == [t |-> "undef", v |-> <<>>]

\* String.prototype.includes on token sequences
Contains(text, sub) ==
    \E p \in 1..(Len(text) - Len(sub) + 1) : SubSeq(text, p, p + Len(sub) - 1) = sub

\* String.prototype.trim
RECURSIVE TrimLeft(_)
TrimLeft(s) == IF s # <<>> /\ Head(s) \in WS THEN TrimLeft(Tail(s)) ELSE s

RECURSIVE TrimRight(_)
TrimRight(s) ==
    IF s # <<>> /\ s[Len(s)] \in WS THEN TrimRight(SubSeq(s, 1, Len(s) - 1)) ELSE s

Trim(s) == TrimRight(TrimLeft(s))

\* res.replace(<code-fence pattern>, "")
RemoveFences(s) == SelectSeq(s, LAMBDA c : c \notin Fences)

\* res.replace(/'/g, '"')
SingleToDouble(s) == [p \in 1..Len(s) |-> IF s[p] = "'" THEN "\"" ELSE s[p]]

\* index of the first non-whitespace token at or after p (Len(s)+1 if none)
RECURSIVE SkipWS(_, _)
SkipWS(s, p) == IF p <= Len(s) /\ s[p] \in WS THEN SkipWS(s, p + 1) ELSE p

\* trailing commas left in the text
KeepTrailingCommas(s) == s

\* res.replace(/,\s*([}\]])/g, "$1")
RECURSIVE RemoveTrailingCommas(_)
RemoveTrailingCommas(s) ==
    IF s = <<>> THEN <<>>
    ELSE IF Head(s) = ","
         THEN LET q == SkipWS(s, 2)
              IN  IF q <= Len(s) /\ s[q] \in {"}", "]"}
                  THEN <<s[q]>> \o RemoveTrailingCommas(SubSeq(s, q + 1, Len(s)))
                  ELSE <<",">> \o RemoveTrailingCommas(Tail(s))
         ELSE <<Head(s)>> \o RemoveTrailingCommas(Tail(s))

\* (await result.response.text()).trim() followed by the "Clean up" block
CleanUp(raw) == RemoveTrailingCommas(SingleToDouble(Trim(RemoveFences(Trim(raw)))))

\* res.match(/\{[\s\S]*\}|\[[\s\S]*\]/): positions where the pattern can start
Closer(c) == IF c = "{" THEN "}" ELSE "]"

MatchStarts(s) ==
    {p \in 1..Len(s) : /\ s[p] \in {"{", "["}
                       /\ \E q \in (p + 1)..Len(s) : s[q] = Closer(s[p])}

HasJsonMatch(s) == MatchStarts(s) # {}

\* jsonMatch[0]: leftmost start, greedy to the last matching closer
JsonMatch(s) ==
    LET p == CHOOSE x \in MatchStarts(s) : \A y \in MatchStarts(s) : x <= y
        q == CHOOSE x \in (p + 1)..Len(s) :
                /\ s[x] = Closer(s[p])
                /\ \A y \in (p + 1)..Len(s) : s[y] = Closer(s[p]) => y <= x
    IN  SubSeq(s, p, q)

\* ------------------------------------------------------------ JSON.parse

\* A parse result: ok, the value, the index after it, and (when not ok) the
\* SyntaxError's message.
ParseOk(val, pos) == [ok |-> TRUE, val |-> val, pos |-> pos, err |-> <<>>]
ParseFail(msg) == [ok |-> FALSE, val |-> Undefined, pos |-> 0, err |-> msg]

UnexpectedEnd == <<"Unexpected end of JSON input">>
UnexpectedToken(c) == <<"Unexpected token ", c, " in JSON">>

\* obj[k] = val on an insertion-ordered object: a repeated key keeps its place
ObjSet(members, k, val) ==
    IF \E j \in 1..Len(members) : members[j].k = k
    THEN [j \in 1..Len(members) |->
             IF members[j].k = k THEN [k |-> k, val |-> val] ELSE members[j]]
    ELSE Append(members, [k |-> k, val |-> val])

\* a string body starting after the opening quote at p - 1
RECURSIVE ParseChars(_, _, _)
ParseChars(s, p, acc) ==
    IF p > Len(s) THEN ParseFail(UnexpectedEnd)
    ELSE IF s[p] = "\"" THEN ParseOk(Str(acc), p + 1)
    ELSE IF s[p] = "\n" THEN ParseFail(UnexpectedToken(s[p]))
    ELSE ParseChars(s, p + 1, Append(acc, s[p]))

RECURSIVE ParseValue(_, _)
RECURSIVE ParseMembers(_, _, _, _)
RECURSIVE ParseElements(_, _, _, _)

\* members of an object, after "{" (first) or after "," (not first)
ParseMembers(s, p0, acc, first) ==
    LET p == SkipWS(s, p0)
    IN  IF p > Len(s) THEN ParseFail(UnexpectedEnd)
        ELSE IF first /\ s[p] = "}" THEN ParseOk(Obj(acc), p + 1)
        ELSE IF s[p] # "\"" THEN ParseFail(UnexpectedToken(s[p]))
        ELSE LET key == ParseChars(s, p + 1, <<>>)
             IN  IF ~key.ok THEN key
                 ELSE LET c == SkipWS(s, key.pos)
                      IN  IF c > Len(s) THEN ParseFail(UnexpectedEnd)
                          ELSE IF s[c] # ":" THEN ParseFail(UnexpectedToken(s[c]))
                          ELSE LET val == ParseValue(s, c + 1)
                               IN  IF ~val.ok THEN val
                                   ELSE LET n == SkipWS(s, val.pos)
                                            now == ObjSet(acc, key.val.v, val.val)
                                        IN  IF n > Len(s) THEN ParseFail(UnexpectedEnd)
                                            ELSE IF s[n] = "}" THEN ParseOk(Obj(now), n + 1)
                                            ELSE IF s[n] = ","
                                                 THEN ParseMembers(s, n + 1, now, FALSE)
                                            ELSE ParseFail(UnexpectedToken(s[n]))

\* elements of an array, after "[" (first) or after "," (not first)
ParseElements(s, p0, acc, first) ==
    LET p == SkipWS(s, p0)
    IN  IF p > Len(s) THEN ParseFail(UnexpectedEnd)
        ELSE IF first /\ s[p] = "]" THEN ParseOk(Arr(acc), p + 1)
        ELSE LET val == ParseValue(s, p)
             IN  IF ~val.ok THEN val
                 ELSE LET n == SkipWS(s, val.pos)
                          now == Append(acc, val.val)
                      IN  IF n > Len(s) THEN ParseFail(UnexpectedEnd)
                          ELSE IF s[n] = "]" THEN ParseOk(Arr(now), n + 1)
                          ELSE IF s[n] = "," THEN ParseElements(s, n + 1, now, FALSE)
                          ELSE ParseFail(UnexpectedToken(s[n]))

ParseValue(s, p0) ==
    LET p == SkipWS(s, p0)
    IN  IF p > Len(s) THEN ParseFail(UnexpectedEnd)
        ELSE IF s[p] = "{" THEN ParseMembers(s, p + 1, <<>>, TRUE)
        ELSE IF s[p] = "[" THEN ParseElements(s, p + 1, <<>>, TRUE)
        ELSE IF s[p] = "\"" THEN ParseChars(s, p + 1, <<>>)
        ELSE IF s[p] \in Digits THEN ParseOk(Num(<<s[p]>>), p + 1)
        ELSE IF s[p] \in Literals THEN ParseOk(Lit(<<s[p]>>), p + 1)
        ELSE ParseFail(UnexpectedToken(s[p]))

\* JSON.parse(text): one value, then nothing but whitespace
JsonParse(s) ==
    LET r == ParseValue(s, 1)
    IN  IF ~r.ok THEN r
        ELSE LET n == SkipWS(s, r.pos)
             IN  IF n > Len(s) THEN r ELSE ParseFail(UnexpectedToken(s[n]))

\* -------------------------------------------------------- JSON.stringify

RECURSIVE Stringify(_)
RECURSIVE StringifyAll(_, _)

\* the members or elements from index j on, comma-separated
StringifyAll(val, j) ==
    IF j > Len(val.v) THEN <<>>
    ELSE (IF j > 1 THEN <<",">> ELSE <<>>)
         \o (IF val.t = "obj"
             THEN <<"\"">> \o val.v[j].k \o <<"\"", ":">> \o Stringify(val.v[j].val)
             ELSE IF val.v[j].t = "undef" THEN <<"null">> ELSE Stringify(val.v[j]))
         \o StringifyAll(val, j + 1)

Stringify(val) ==
    CASE val.t = "str" -> <<"\"">> \o val.v \o <<"\"">>
      [] val.t \in {"num", "lit"} -> val.v
      [] val.t = "arr" -> <<"[">> \o StringifyAll(val, 1) \o <<"]">>
      [] val.t = "obj" ->
            <<"{">>
            \o StringifyAll(Obj(SelectSeq(val.v, LAMBDA m : m.val.t # "undef")), 1)
            \o <<"}">>
      [] OTHER -> <<"undefined">>

\* ------------------------------------------------- sanitize and validate

\* a thrown error: its constructor name and its message
Err(name, message) == [name |-> name, message |-> message]
NoError == Err("", <<>>)

NoJsonFound == Err("Error", <<"No valid JSON object found.">>)
MissingKey(key, item) ==
    Err("Error", <<"Missing key '">> \o key \o <<"' in item: ">> \o Stringify(item))
\* "key in item" on a value that is not an object
InOperatorError(key, item) ==
    Err("TypeError",
        <<"Cannot use 'in' operator to search for '">> \o key \o <<"' in ">>
        \o (IF item.t = "str" THEN item.v ELSE Stringify(item)))
\* Object.values(null)
ObjectValuesError == Err("TypeError", <<"Cannot convert undefined or null to object">>)

\* Array.isArray
IsArray(val) == val.t = "arr"

\* every missing key tolerated
HasMarkerAlways(key) == TRUE

\* key.includes("<")
HasMarker(key) == Contains(key, <<"<">>)

\* key in item, for an item the operator accepts
HasKey(item, key) == item.t = "obj" /\ \E j \in 1..Len(item.v) : item.v[j].k = key

\* item[key], for a key the item has
Get(item, key) ==
    LET j == CHOOSE x \in 1..Len(item.v) : item.v[x].k = key IN item.v[j].val

\* arr[0]
First(val) == IF Len(val.v) = 0 THEN Undefined ELSE val.v[1]

\* options.includes(x): strict equality against the allowed strings
Includes(options, x) ==
    x.t = "str" /\ \E j \in 1..Len(options.v) : options.v[j] = x

\* the value checked against the allowed set as it came, sequence or not
EnumFieldWhole(options, val, default_category) ==
    IF ~Includes(options, val) /\ default_category # <<>>
    THEN Str(default_category)
    ELSE val

\* the default assigned on every mismatch, configured or not
EnumFieldAlwaysDefault(options, val, default_category) ==
    LET considered == IF IsArray(val) THEN First(val) ELSE val
    IN  IF ~Includes(options, considered)
        THEN Str(default_category)
        ELSE considered

\* lines 94-101: the field of a closed-set key, after both assignments
EnumField(options, val, default_category) ==
    LET considered == IF IsArray(val) THEN First(val) ELSE val
    IN  IF ~Includes(options, considered) /\ default_category # <<>>
        THEN Str(default_category)
        ELSE considered

\* lines 86-102: the keys of output_format from index j on, against one item;
\* the item is changed in place
RECURSIVE CheckKeys(_, _, _, _)
CheckKeys(item, output_format, default_category, j) ==
    IF j > Len(output_format.v) THEN [ok |-> TRUE, item |-> item, err |-> NoError]
    ELSE LET key == output_format.v[j].k
             want == output_format.v[j].val
         IN  IF item.t \notin {"obj", "arr"}
             THEN [ok |-> FALSE, item |-> item, err |-> InOperatorError(key, item)]
             ELSE IF ~HasKey(item, key)
             THEN IF ~HasMarker(key)
                  THEN [ok |-> FALSE, item |-> item, err |-> MissingKey(key, item)]
                  ELSE CheckKeys(item, output_format, default_category, j + 1)
             ELSE IF IsArray(want)
             THEN CheckKeys(
                      Obj(ObjSet(item.v, key,
                                 EnumField(want, Get(item, key), default_category))),
                      output_format, default_category, j + 1)
             ELSE CheckKeys(item, output_format, default_category, j + 1)

\* Object.values(item)
ObjectValues(item) ==
    CASE item.t = "obj" -> [j \in 1..Len(item.v) |-> item.v[j].val]
      [] item.t = "arr" -> item.v
      [] item.t = "str" -> [j \in 1..Len(item.v) |-> Str(<<item.v[j]>>)]
      [] OTHER -> <<>>

\* lines 104-107: the value bound to the loop variable item at the end of
\* the loop body
ValuesOnly(item) ==
    LET values == ObjectValues(item)
    IN  IF Len(values) = 1 THEN values[1] ELSE Arr(values)

\* lines 85-108, one pass of the outer loop: `item` is the element of
\* outputs after the pass (the object, changed in place), `local` is what the
\* loop variable holds when the pass ends
ProcessItem(item0, output_format, default_category, output_value_only) ==
    LET r == CheckKeys(item0, output_format, default_category, 1)
    IN  IF ~r.ok THEN [ok |-> FALSE, item |-> r.item, local |-> r.item, err |-> r.err]
        ELSE IF ~output_value_only
        THEN [ok |-> TRUE, item |-> r.item, local |-> r.item, err |-> NoError]
        ELSE IF r.item = Lit(<<"null">>)
        THEN [ok |-> FALSE, item |-> r.item, local |-> r.item, err |-> ObjectValuesError]
        ELSE [ok |-> TRUE, item |-> r.item, local |-> ValuesOnly(r.item), err |-> NoError]

\* only the first record of the reply validated
ValidateFirstOnly(outputs, output_format, default_category, output_value_only, j) ==
    IF j > Len(outputs) \/ j > 1 THEN [ok |-> TRUE, outputs |-> outputs, err |-> NoError]
    ELSE LET r == ProcessItem(outputs[j], output_format, default_category,
                              output_value_only)
         IN  IF ~r.ok THEN [ok |-> FALSE, outputs |-> outputs, err |-> r.err]
             ELSE [ok |-> TRUE, outputs |-> [outputs EXCEPT ![j] = r.item], err |-> NoError]

\* lines 85-108: the outer loop from index j on
RECURSIVE Validate(_, _, _, _, _)
Validate(outputs, output_format, default_category, output_value_only, j) ==
    IF j > Len(outputs) THEN [ok |-> TRUE, outputs |-> outputs, err |-> NoError]
    ELSE LET r == ProcessItem(outputs[j], output_format, default_category,
                              output_value_only)
         IN  IF ~r.ok THEN [ok |-> FALSE, outputs |-> outputs, err |-> r.err]
             ELSE Validate([outputs EXCEPT ![j] = r.item], output_format,
                           default_category, output_value_only, j + 1)

\* line 82
Outputs(parsed) == IF IsArray(parsed) THEN parsed.v ELSE <<parsed>>

\* lines 51-110: what the try block does with the provider's text.  `stage`
\* is where it ended: "match", "parse", "validate" (thrown there) or "return".
Attempt(raw, output_format, default_category, output_value_only) ==
    LET res == CleanUp(raw)
    IN  IF ~HasJsonMatch(res)
        THEN [stage |-> "match", outputs |-> <<>>, err |-> NoJsonFound, json |-> <<>>]
        ELSE LET json == JsonMatch(res)
                 parsed == JsonParse(json)
             IN  IF ~parsed.ok
                 THEN [stage |-> "parse", outputs |-> <<>>,
                       err |-> Err("SyntaxError", parsed.err), json |-> json]
                 ELSE LET v == Validate(Outputs(parsed.val), output_format,
                                        default_category, output_value_only, 1)
                      IN  IF ~v.ok
                          THEN [stage |-> "validate", outputs |-> <<>>,
                                err |-> v.err, json |-> json]
                          ELSE [stage |-> "return", outputs |-> v.outputs,
                                err |-> NoError, json |-> json]

\* ---------------------------------------------------------------- prompt

\* /<.*?>/.test(JSON.stringify(output_format))
DynamicElements(output_format) ==
    LET text == Stringify(output_format)
    IN  \E p \in 1..Len(text) : \E q \in (p + 1)..Len(text) :
            /\ text[p] = "<"
            /\ text[q] = ">"
            /\ \A x \in p..q : text[x] # "\n"

\* user_prompt.join("\n")
RECURSIVE Join(_, _)
Join(items, j) ==
    IF j > Len(items) THEN <<>>
    ELSE (IF j > 1 THEN <<"\n">> ELSE <<>>) \o items[j].v \o Join(items, j + 1)

\* lines 30-42
FormatInstructions(user_prompt, output_format) ==
    <<"\n\nONLY return a valid JSON object following this shape: ">>
    \o Stringify(output_format)
    \o <<".\nDo not wrap the JSON inside code blocks. [...] NO comments.\n">>
    \o (IF IsArray(user_prompt)
        THEN <<"\nReturn an array of JSON objects - one for each user input.">>
        ELSE <<>>)
    \o (IF DynamicElements(output_format)
        THEN <<"\nAny key or value wrapped in <...> must be replaced dynamically [...].">>
        ELSE <<>>)
    \o <<"\n\nOutput MUST be directly parsable by JavaScript's JSON.parse() [...].">>

\* the prompt built without the error-feedback text
PromptWithoutFeedback(system_prompt, user_prompt, output_format, error_msg) ==
    system_prompt
    \o FormatInstructions(user_prompt, output_format)
    \o <<"\n\nINPUT:\n">>
    \o (IF IsArray(user_prompt) THEN Join(user_prompt.v, 1) ELSE user_prompt.v)

\* line 44
Prompt(system_prompt, user_prompt, output_format, error_msg) ==
    system_prompt
    \o FormatInstructions(user_prompt, output_format)
    \o error_msg
    \o <<"\n\nINPUT:\n">>
    \o (IF IsArray(user_prompt) THEN Join(user_prompt.v, 1) ELSE user_prompt.v)

\* line 115: the text assigned to error_msg
FeedbackMarker(message) == <<"\n\n[PREVIOUS ATTEMPT FAILED: ">> \o message \o <<"]">>

\* line 119
AllAttemptsFailed ==
    Err("Error", <<"All attempts failed to produce valid structured output.">>)

\* ---------------------------------------------------------------- inputs

MaxTries == 3

Q == "\""

\* output_format values the model calls strict_output with
ShapeAnswer == Obj(<<[k |-> <<"answer">>, val |-> Str(<<"a short answer">>)]>>)
ShapeQuiz ==
    Obj(<< [k |-> <<"question">>, val |-> Str(<<"the question">>)],
           [k |-> <<"<", "topic", ">">>, val |-> Str(<<"its topic">>)],
           [k |-> <<"level">>, val |-> Arr(<<Str(<<"easy">>), Str(<<"hard">>)>>)] >>)
Shapes == {ShapeAnswer, ShapeQuiz}

\* user_prompt: one string, or a sequence of two input items
UserPrompts == {Str(<<"capital of France?">>), Arr(<<Str(<<"item1">>), Str(<<"item2">>)>>)}

DefaultCategories == {<<>>, <<"medium">>}

\* texts the provider may return
ReplyAnswer == <<"{", Q, "answer", Q, ":", " ", Q, "Paris", Q, "}">>
ReplyQuizTwo ==
    << "[", "{", Q, "question", Q, ":", Q, "q1", Q, ",", Q, "level", Q, ":", Q, "odd", Q, "}",
       ",", " ",
       "{", Q, "question", Q, ":", Q, "q2", Q, ",", Q, "level", Q, ":",
            "[", Q, "hard", Q, ",", Q, "odd", Q, "]", "}", "]" >>
ReplyQuizOne ==
    << "{", Q, "level", Q, ":", "[", Q, "odd", Q, ",", Q, "easy", Q, "]", ",",
       Q, "<", "topic", ">", Q, ":", Q, "t", Q, ",",
       Q, "question", Q, ":", Q, "q1", Q, ",", Q, "answer", Q, ":", Q, "Rome", Q, "}" >>
ReplySecondLacksKey ==
    << "[", "{", Q, "question", Q, ":", Q, "q1", Q, ",", Q, "level", Q, ":", "[", "]", ",",
            Q, "answer", Q, ":", Q, "Oslo", Q, "}", ",",
       "{", Q, "level", Q, ":", Q, "hard", Q, "}", "]" >>
ReplyNotObjects == <<"[", "null", ",", "5", "]">>
ReplyEmptyArray == <<"[", "]">>
ReplyProse == <<"Sorry", ",", " ", "I", " ", "cannot", " ", "help", ".">>
ReplyBadJson == <<"{", Q, "answer", Q, ":", " ", "Paris", "}">>
ReplyFenced ==
    << "FENCE_JSON", "\n", "{", "'", "answer", "'", ":", " ", "'", "Bern", "'", ",",
       " ", "'", "question", "'", ":", "'", "q1", "'", ",",
       " ", "'", "level", "'", ":", "[", "'", "easy", "'", ",", "]", ",", "\n", "}",
       "\n", "FENCE" >>
Replies ==
    { ReplyAnswer, ReplyQuizTwo, ReplyQuizOne, ReplySecondLacksKey, ReplyNotObjects,
      ReplyEmptyArray, ReplyProse, ReplyBadJson, ReplyFenced }

\* texts that are JSON with prose around it, or JSON whose strings hold the
\* characters the clean-up rewrites
ReplyTrailingProse ==
    <<"{", Q, "answer", Q, ":", Q, "Paris", Q, "}", " ", "see", " ", "{", "note", "}">>
ReplyLeadingProse ==
    <<"{", "note", "}", ":", " ", "{", Q, "answer", Q, ":", Q, "Paris", Q, "}">>
ReplyApostrophe == <<"{", Q, "answer", Q, ":", Q, "it", "'", "s", Q, "}">>
ReplyCommaInString == <<"{", Q, "answer", Q, ":", Q, "a", ",", "}", Q, "}">>
RepliesText ==
    {ReplyAnswer, ReplyTrailingProse, ReplyLeadingProse, ReplyApostrophe, ReplyCommaInString}

\* the texts two concurrent invocations are answered with
RepliesTwo == {ReplyAnswer, ReplyProse, ReplyBadJson}

\* messages of the errors the provider call may fail with
ProviderErrors == {<<"429 quota exceeded">>}

\* ----------------------------------------------------------------- state

VARIABLES
    args,         \* the arguments of the call (lines 8-16)
    i,            \* the loop counter (line 29)
    error_msg,    \* line 27
    pc,           \* "loop", "await" (line 50), "returned" (line 110), "thrown" (line 119)
    returned,     \* the value strict_output's promise resolves with
    thrown,       \* the error strict_output's promise rejects with
    calls,        \* the arguments of every generateContent call so far
    replies,      \* what the provider answered to each call
    failures,     \* e.message of every error caught at line 111
    console,      \* what was written to the console
    other         \* the locals of a second, concurrent invocation (lines 23-29)

vars == <<other, args, i, error_msg, pc, returned, thrown, calls, replies, failures, console>>

Arguments ==
    [ system_prompt : {<<"You are a quiz generator.">>},
      user_prompt : UserPrompts,
      output_format : Shapes,
      default_category : DefaultCategories,
      output_value_only : BOOLEAN,
      model : {"models/gemini-1.5-flash"},
      temperature : {7},
      num_tries : (-1)..MaxTries,
      verbose : BOOLEAN ]

\* no second invocation
NoCall == [pc |-> "none"]

Init ==
    /\ args \in Arguments
    /\ other = NoCall
    /\ i = 0
    /\ error_msg = <<>>
    /\ pc = "loop"
    /\ returned = <<>>
    /\ thrown = NoError
    /\ calls = <<>>
    /\ replies = <<>>
    /\ failures = <<>>
    /\ console = <<>>

Log(level, text) == [level |-> level, text |-> text]

\* the loop test off by one
LoopTestInclusive == i <= args.num_tries

\* the test made after the first pass only, as in a do-while loop
LoopTestAfterFirstPass == i = 0 \/ i < args.num_tries

\* line 29: the loop test
LoopTest == i < args.num_tries

\* lines 29-50: the prompt and the provider call
CallProvider ==
    /\ pc = "loop"
    /\ LoopTest
    /\ calls' = Append(calls,
                       [ prompt |-> Prompt(args.system_prompt, args.user_prompt,
                                           args.output_format, error_msg),
                         model |-> args.model ])
    /\ pc' = "await"
    /\ UNCHANGED <<other, args, i, error_msg, returned, thrown, replies, failures, console>>

\* lines 53-56
RawOutputLog(raw) ==
    IF args.verbose
    THEN <<Log("log", <<"==== RAW OUTPUT FROM GEMINI ====">>), Log("log", Trim(raw))>>
    ELSE <<>>

\* lines 72-80
ParseFailureLog(a) ==
    IF a.stage = "parse"
    THEN << Log("error", <<"JSON.parse failed:">> \o a.err.message),
            Log("error", <<"JSON content was:">> \o a.json) >>
    ELSE <<>>

\* lines 112-114
AttemptFailedLog(message) ==
    IF args.verbose
    THEN <<Log("warn", <<"Attempt failed with model:">> \o <<args.model>> \o message)>>
    ELSE <<>>

\* the feedback appended to the text instead of assigned
CatchAppending(e, logged) ==
    /\ console' = console \o logged \o AttemptFailedLog(e.message)
    /\ error_msg' = error_msg \o FeedbackMarker(e.message)
    /\ failures' = Append(failures, e.message)
    /\ i' = i + 1
    /\ pc' = "loop"
    /\ UNCHANGED <<other, args, returned, thrown, calls>>

\* a failed attempt that leaves the attempt index where it was
CatchWithoutIncrement(e, logged) ==
    /\ console' = console \o logged \o AttemptFailedLog(e.message)
    /\ error_msg' = FeedbackMarker(e.message)
    /\ failures' = Append(failures, e.message)
    /\ i' = i
    /\ pc' = "loop"
    /\ UNCHANGED <<other, args, returned, thrown, calls>>

\* lines 111-116 and the loop increment
Catch(e, logged) ==
    /\ console' = console \o logged \o AttemptFailedLog(e.message)
    /\ error_msg' = FeedbackMarker(e.message)
    /\ failures' = Append(failures, e.message)
    /\ i' = i + 1
    /\ pc' = "loop"
    /\ UNCHANGED <<other, args, returned, thrown, calls>>

\* a successful attempt that stores its records and lets the loop go on
ReturnAndContinue(outputs, logged) ==
    /\ returned' = outputs
    /\ pc' = "loop"
    /\ i' = i + 1
    /\ console' = console \o logged
    /\ UNCHANGED <<other, args, error_msg, thrown, calls, failures>>

\* line 110
Return(outputs, logged) ==
    /\ returned' = outputs
    /\ pc' = "returned"
    /\ console' = console \o logged
    /\ UNCHANGED <<other, args, i, error_msg, thrown, calls, failures>>

\* lines 50-116: the provider answers with text; the rest of the try block
ProviderReturns(raw) ==
    /\ pc = "await"
    /\ replies' = Append(replies, [ok |-> TRUE, body |-> raw])
    /\ LET a == Attempt(raw, args.output_format, args.default_category,
                        args.output_value_only)
           logged == RawOutputLog(raw) \o ParseFailureLog(a)
       IN  IF a.stage = "return" THEN Return(a.outputs, logged) ELSE Catch(a.err, logged)

\* a provider failure retried without counting the attempt
ProviderFailsUncounted(message) ==
    /\ pc = "await"
    /\ replies' = Append(replies, [ok |-> FALSE, body |-> message])
    /\ console' = console \o AttemptFailedLog(message)
    /\ error_msg' = FeedbackMarker(message)
    /\ failures' = Append(failures, message)
    /\ pc' = "loop"
    /\ UNCHANGED <<other, args, i, returned, thrown, calls>>

\* the provider call placed outside the try block: its error escapes
ProviderFailsUncaught(message) ==
    /\ pc = "await"
    /\ replies' = Append(replies, [ok |-> FALSE, body |-> message])
    /\ thrown' = Err("Error", message)
    /\ pc' = "thrown"
    /\ UNCHANGED <<other, args, i, error_msg, returned, calls, failures, console>>

\* lines 47-51 throw: the provider call fails
ProviderFails(message) ==
    /\ pc = "await"
    /\ replies' = Append(replies, [ok |-> FALSE, body |-> message])
    /\ Catch(Err("Error", message), <<>>)

\* line 119: the loop ends without a return
Exhausted ==
    /\ pc = "loop"
    /\ ~LoopTest
    /\ thrown' = AllAttemptsFailed
    /\ pc' = "thrown"
    /\ UNCHANGED <<other, args, i, error_msg, returned, calls, replies, failures, console>>

Next ==
    \/ CallProvider
    \/ \E raw \in Replies : ProviderReturns(raw)
    \/ \E message \in ProviderErrors : ProviderFails(message)
    \/ Exhausted

Spec == Init /\ [][Next]_vars

\* ------------------------------------------------ two concurrent requests

MaxTriesTwo == 2

\* the frame of the running invocation: its arguments and locals
Locals ==
    [ args |-> args, i |-> i, error_msg |-> error_msg, pc |-> pc, returned |-> returned,
      thrown |-> thrown, calls |-> calls, replies |-> replies, failures |-> failures ]

\* an invocation that has not run yet
Fresh(a) ==
    [ args |-> a, i |-> 0, error_msg |-> <<>>, pc |-> "loop", returned |-> <<>>,
      thrown |-> NoError, calls |-> <<>>, replies |-> <<>>, failures |-> <<>> ]

ArgumentsTwo ==
    [ system_prompt : {<<"You are a quiz generator.">>},
      user_prompt : UserPrompts,
      output_format : {ShapeAnswer},
      default_category : {<<>>},
      output_value_only : {FALSE},
      model : {"models/gemini-1.5-flash"},
      temperature : {7},
      num_tries : 1..MaxTriesTwo,
      verbose : {FALSE} ]

\* two invocations of strict_output, with different inputs
InitTwo ==
    /\ args \in {a \in ArgumentsTwo : ~IsArray(a.user_prompt)}
    /\ other \in {Fresh(a) : a \in {b \in ArgumentsTwo : IsArray(b.user_prompt)}}
    /\ i = 0
    /\ error_msg = <<>>
    /\ pc = "loop"
    /\ returned = <<>>
    /\ thrown = NoError
    /\ calls = <<>>
    /\ replies = <<>>
    /\ failures = <<>>
    /\ console = <<>>

\* error_msg and i kept at module level: the other invocation resumes with
\* the values this one left
SwitchSharedFeedback ==
    /\ other # NoCall
    /\ other.pc \notin {"returned", "thrown"}
    /\ pc # "loop" \/ calls = <<>>
    /\ args' = other.args
    /\ pc' = other.pc
    /\ returned' = other.returned
    /\ thrown' = other.thrown
    /\ calls' = other.calls
    /\ replies' = other.replies
    /\ failures' = other.failures
    /\ other' = Locals
    /\ UNCHANGED <<i, error_msg, console>>

\* line 50 (await) and lines 23-29: while this invocation is suspended at the
\* provider call, has ended or has not started, the other invocation runs,
\* with its own arguments and locals; the console is the one they share
Switch ==
    /\ other # NoCall
    /\ other.pc \notin {"returned", "thrown"}
    /\ pc # "loop" \/ calls = <<>>
    /\ args' = other.args
    /\ i' = other.i
    /\ error_msg' = other.error_msg
    /\ pc' = other.pc
    /\ returned' = other.returned
    /\ thrown' = other.thrown
    /\ calls' = other.calls
    /\ replies' = other.replies
    /\ failures' = other.failures
    /\ other' = Locals
    /\ UNCHANGED console

NextTwo ==
    \/ CallProvider
    \/ \E raw \in RepliesTwo : ProviderReturns(raw)
    \/ \E message \in ProviderErrors : ProviderFails(message)
    \/ Exhausted
    \/ Switch

SpecTwo == InitTwo /\ [][NextTwo]_vars

\* ------------------------------------------- requests answered with prose

ArgumentsText ==
    [ system_prompt : {<<"You are a quiz generator.">>},
      user_prompt : UserPrompts,
      output_format : {ShapeAnswer},
      default_category : {<<>>},
      output_value_only : {FALSE},
      model : {"models/gemini-1.5-flash"},
      temperature : {7},
      num_tries : 1..MaxTries,
      verbose : BOOLEAN ]

InitText == Init /\ args \in ArgumentsText

NextText ==
    \/ CallProvider
    \/ \E raw \in RepliesText : ProviderReturns(raw)
    \/ \E message \in ProviderErrors : ProviderFails(message)
    \/ Exhausted

SpecText == InitText /\ [][NextText]_vars

\* line 50: the awaited provider call settles, with an error or with text
ProviderSettles ==
    \/ \E message \in ProviderErrors : ProviderFails(message)
    \/ \E raw \in RepliesText : ProviderReturns(raw)

\* the provider answers every call, and the function's own steps are taken
LiveText ==
    /\ SpecText
    /\ WF_vars(CallProvider)
    /\ WF_vars(ProviderSettles)
    /\ WF_vars(Exhausted)

\* ---------------------------------------------------------------- claims

\* What the sanitized text of each reply parses to, and how an attempt on it
\* ends under each setting (evaluated once per reply).
AllReplies == Replies \cup RepliesText \cup RepliesTwo
Sanitized == [raw \in AllReplies |-> CleanUp(raw)]
Parsed ==
    [raw \in AllReplies |->
        IF HasJsonMatch(Sanitized[raw])
        THEN JsonParse(JsonMatch(Sanitized[raw]))
        ELSE ParseFail(NoJsonFound.message)]
Outcome ==
    [raw \in AllReplies |-> [fmt \in Shapes |-> [dc \in DefaultCategories |->
        [vo \in BOOLEAN |-> Attempt(raw, fmt, dc, vo)]]]]

\* how the attempt on reply number j of this call ends
OutcomeOf(j) ==
    Outcome[replies[j].body][args.output_format][args.default_category]
           [args.output_value_only]

\* reply j is text that sanitization and JSON.parse do not turn into a value
Unparsable(j) == replies[j].ok /\ ~Parsed[replies[j].body].ok

\* attempt j passed sanitization, parsing and validation
Succeeded(j) == replies[j].ok /\ OutcomeOf(j).stage = "return"

Terminated == pc \in {"returned", "thrown"}

\* C1: when every provider call of a request with num_tries >= 1 returns
\* unparsable text, the request never returns a result, never makes more than
\* num_tries provider calls, and ends only after exactly num_tries calls, with
\* the exhausted-retries error.
C1_RetryBound ==
    (args.num_tries >= 1 /\ \A j \in 1..Len(replies) : Unparsable(j)) =>
        /\ pc # "returned"
        /\ returned = <<>>
        /\ Len(calls) <= args.num_tries
        /\ pc = "thrown" => (Len(calls) = args.num_tries /\ thrown = AllAttemptsFailed)
        /\ (pc = "loop" /\ Len(replies) = args.num_tries) => ~ENABLED CallProvider

C1_Witness ==
    /\ pc = "thrown"
    /\ args.num_tries = 3
    /\ Len(calls) = 3
    /\ replies[1].body = ReplyProse
    /\ replies[2].body = ReplyBadJson
    /\ replies[3].body = ReplyProse

\* C2: a successful attempt is the last one: the request has returned that
\* attempt's records, and the number of provider calls equals the index of the
\* first successful attempt.
C2_ReturnsAtFirstSuccess ==
    \A j \in 1..Len(replies) :
        Succeeded(j) =>
            /\ pc = "returned"
            /\ returned = OutcomeOf(j).outputs
            /\ Len(replies) = j
            /\ Len(calls) = j
            /\ \A k \in 1..(j - 1) : ~Succeeded(k)

C2_Witness ==
    /\ pc = "returned"
    /\ Len(calls) = 3
    /\ Succeeded(3)
    /\ ~replies[1].ok
    /\ replies[2].body = ReplyNotObjects

\* an attempt on reply j that fails, and with which kind of failure
FailureKind(j) ==
    IF ~replies[j].ok THEN "provider"
    ELSE IF OutcomeOf(j).stage = "match" THEN "no-json"
    ELSE IF OutcomeOf(j).stage = "parse" THEN "parse"
    ELSE IF OutcomeOf(j).stage = "validate" THEN "record"
    ELSE "none"

\* C3: the only error a request is rejected with is the exhausted-retries
\* error; a provider-call failure, no JSON found, a JSON parse failure and a
\* missing-key failure (a record that is not an object included) are caught:
\* their message is recorded and the request goes on to the loop test.
C3_OnlyExhaustedEscapes ==
    /\ thrown \in {NoError, AllAttemptsFailed}
    /\ pc = "thrown" <=> thrown = AllAttemptsFailed
    /\ pc = "thrown" => ~LoopTest
    /\ \A j \in 1..Len(replies) :
          FailureKind(j) # "none" =>
              /\ j <= Len(failures)
              /\ failures[j] = (IF replies[j].ok THEN OutcomeOf(j).err.message
                                ELSE replies[j].body)
              /\ i >= j
              /\ j = Len(replies) => pc # "returned"

C3_Witness ==
    /\ pc = "thrown"
    /\ thrown = AllAttemptsFailed
    /\ Len(replies) = 3
    /\ replies[1].body = ReplyNotObjects
    /\ OutcomeOf(1).err.name = "TypeError"
    /\ FailureKind(2) = "provider"
    /\ FailureKind(3) = "parse"

\* the keys of the shape that carry no angle-bracket marker
RequiredKeys(fmt) ==
    {fmt.v[j].k : j \in {x \in 1..Len(fmt.v) : \A p \in 1..Len(fmt.v[x].k) : fmt.v[x].k[p] # "<"}}

\* the record is an object with the key among its own keys
Holds(record, key) ==
    record.t = "obj" /\ \E j \in 1..Len(record.v) : record.v[j].k = key

\* C4: a request ends in exactly one of two ways: with a result in which
\* every record holds every shape key that has no angle-bracket marker, all
\* records coming from the last attempt, the only successful one; or with the
\* exhausted-retries error and no result.  Before it ends there is neither.
C4_ResultOrError ==
    /\ pc = "returned" =>
          /\ thrown = NoError
          /\ replies # <<>>
          /\ replies[Len(replies)].ok
          /\ Parsed[replies[Len(replies)].body].ok
          /\ Len(returned) = Len(Outputs(Parsed[replies[Len(replies)].body].val))
          /\ \A j \in 1..Len(returned) : \A key \in RequiredKeys(args.output_format) :
                Holds(returned[j], key)
          /\ Len(failures) = Len(replies) - 1
    /\ pc = "thrown" => (returned = <<>> /\ thrown = AllAttemptsFailed)
    /\ ~Terminated => (returned = <<>> /\ thrown = NoError)

C4_Witness ==
    /\ pc = "returned"
    /\ args.output_format = ShapeQuiz
    /\ Len(returned) = 2
    /\ Len(replies) = 2
    /\ replies[1].body = ReplySecondLacksKey

\* the records of the last reply as JSON.parse gave them
LastRecords == Outputs(Parsed[replies[Len(replies)].body].val)

\* record[key]
FieldOf(record, key) ==
    LET j == CHOOSE x \in 1..Len(record.v) : record.v[x].k = key IN record.v[j].val

\* the value of a closed-set field that is considered: the first element of
\* a sequence, else the value itself
Considered(orig) ==
    IF orig.t = "arr" THEN (IF orig.v = <<>> THEN Undefined ELSE orig.v[1]) ELSE orig

Allowed(options, x) == \E j \in 1..Len(options.v) : options.v[j] = x

\* what a field of the validated record is, given the field of the parsed one
Resolved(want, orig, default_category) ==
    IF want.t # "arr" THEN orig
    ELSE IF ~Allowed(want, Considered(orig)) /\ default_category # <<>>
         THEN Str(default_category)
         ELSE Considered(orig)

\* C5: in values-only mode with a shape of exactly one key, each record of
\* the returned sequence is the bare value of that key in the validated
\* record.
C5_ValuesOnlyBare ==
    (pc = "returned" /\ args.output_value_only /\ Len(args.output_format.v) = 1) =>
        \A j \in 1..Len(returned) :
            returned[j] = Resolved(args.output_format.v[1].val,
                                   FieldOf(LastRecords[j], args.output_format.v[1].k),
                                   args.default_category)

\* C6: when user_prompt is a sequence of N input items, a returned result
\* holds exactly N records.
C6_OneRecordPerInput ==
    (pc = "returned" /\ IsArray(args.user_prompt)) =>
        Len(returned) = Len(args.user_prompt.v)

\* C7: with a non-empty default_category D, every closed-set field present
\* in a returned record is the considered value of the reply's field (its first
\* element if it was a sequence) when that is in the allowed set, and D when it
\* is not; so it is a member of the allowed set or D.
C7_EnumDefaulting ==
    (pc = "returned" /\ args.default_category # <<>>) =>
        \A j \in 1..Len(returned) : \A m \in 1..Len(args.output_format.v) :
            LET key == args.output_format.v[m].k
                want == args.output_format.v[m].val
            IN  (want.t = "arr" /\ Holds(returned[j], key)) =>
                    LET field == FieldOf(returned[j], key)
                        considered == Considered(FieldOf(LastRecords[j], key))
                    IN  /\ field = (IF Allowed(want, considered) THEN considered
                                    ELSE Str(args.default_category))
                        /\ Allowed(want, field) \/ field = Str(args.default_category)

C7_Witness ==
    /\ pc = "returned"
    /\ args.output_format = ShapeQuiz
    /\ args.default_category = <<"medium">>
    /\ replies[Len(replies)].body = ReplyQuizTwo
    /\ FieldOf(returned[1], <<"level">>) = Str(<<"medium">>)
    /\ FieldOf(returned[2], <<"level">>) = Str(<<"hard">>)

\* attempt j ended in the catch block
Failed(j) == j <= Len(failures)

\* C8: an attempt whose reply parses fails when some record, the first or a
\* later one, lacks a shape key without a marker; it succeeds when every record
\* is an object holding all those keys, whether or not a key with a marker is
\* missing.
C8_MissingKeys ==
    \A j \in 1..Len(replies) :
        (replies[j].ok /\ Parsed[replies[j].body].ok) =>
            LET recs == Outputs(Parsed[replies[j].body].val)
                complete(r) == \A key \in RequiredKeys(args.output_format) :
                                   Holds(recs[r], key)
            IN  /\ (\E r \in 1..Len(recs) : ~complete(r)) =>
                      (Failed(j) /\ ~(pc = "returned" /\ j = Len(replies)))
                /\ (\A r \in 1..Len(recs) : recs[r].t = "obj" /\ complete(r)) =>
                      (~Failed(j) /\ pc = "returned" /\ j = Len(replies))

C8_Witness ==
    /\ pc = "returned"
    /\ args.output_format = ShapeQuiz
    /\ Len(replies) = 3
    /\ replies[1].body = ReplySecondLacksKey
    /\ replies[2].body = ReplyAnswer
    /\ replies[3].body = ReplyQuizTwo
    /\ \A j \in 1..2 : ~Holds(returned[j], <<"<", "topic", ">">>)

\* the prompt of a call made with the given error-feedback text
PromptWith(feedback) ==
    Prompt(args.system_prompt, args.user_prompt, args.output_format, feedback)

C10_ProviderFailureRetried ==
    \A j \in 1..Len(replies) :
        ~replies[j].ok =>
            /\ Failed(j)
            /\ failures[j] = replies[j].body
            /\ i >= j
            /\ Len(calls) <= args.num_tries
            /\ Len(calls) > j => calls[j + 1].prompt = PromptWith(FeedbackMarker(replies[j].body))
            /\ (j = Len(replies) /\ pc = "loop") =>
                  (error_msg = FeedbackMarker(replies[j].body) /\ i = j)
            /\ j = args.num_tries => (Len(calls) = j /\ pc \in {"loop", "thrown"})
            /\ (j = args.num_tries /\ pc = "thrown") => thrown = AllAttemptsFailed

C10_Witness ==
    /\ pc = "thrown"
    /\ args.num_tries = 2
    /\ ~replies[1].ok
    /\ ~replies[2].ok
    /\ Len(calls) = 2

\* C11: every provider call carries the caller's model identifier and the
\* caller's temperature, unchanged.
C11_ModelAndTemperatureForwarded ==
    \A c \in 1..Len(calls) :
        /\ calls[c].model = args.model
        /\ "temperature" \in DOMAIN calls[c]
        /\ calls[c].temperature = args.temperature

\* C12: with verbose false nothing is written to the console, whatever the
\* outcome of each attempt.
C12_QuietUnlessVerbose == ~args.verbose => console = <<>>

\* the message attempt j of the invocation with frame f failed with
FailureOf(f, j) ==
    IF f.replies[j].ok
    THEN Outcome[f.replies[j].body][f.args.output_format][f.args.default_category]
                [f.args.output_value_only].err.message
    ELSE f.replies[j].body

\* frame f's counter, feedback text and prompts come from f's own failures
OwnState(f) ==
    /\ f.i = Len(f.failures)
    /\ Len(f.calls) <= f.args.num_tries
    /\ f.pc = "thrown" => Len(f.failures) = f.args.num_tries
    /\ \A j \in 1..Len(f.failures) : f.failures[j] = FailureOf(f, j)
    /\ f.error_msg = (IF f.failures = <<>> THEN <<>>
                      ELSE FeedbackMarker(f.failures[Len(f.failures)]))
    /\ \A c \in 1..Len(f.calls) :
          f.calls[c].prompt =
              Prompt(f.args.system_prompt, f.args.user_prompt, f.args.output_format,
                     IF c = 1 THEN <<>> ELSE FeedbackMarker(f.failures[c - 1]))

\* no prompt of frame f holds a failure message that only frame g produced
NoForeignFeedback(f, g) ==
    \A c \in 1..Len(f.calls) : \A j \in 1..Len(g.failures) :
        (\A k \in 1..Len(f.failures) : f.failures[k] # g.failures[j]) =>
            ~Contains(f.calls[c].prompt, FeedbackMarker(g.failures[j]))

\* C13: in every interleaving of two concurrent requests each one's attempt
\* counter and error-feedback text follow from its own failures alone: a prompt
\* of one never holds a failure message of the other, and each is rejected only
\* after num_tries failures of its own.
C13_NoSharedState ==
    /\ OwnState(Locals)
    /\ OwnState(other)
    /\ NoForeignFeedback(Locals, other)
    /\ NoForeignFeedback(other, Locals)

C13_Witness ==
    /\ Len(calls) = 2
    /\ Len(other.calls) = 2
    /\ Len(failures) = 1
    /\ Len(other.failures) = 1
    /\ failures[1] # other.failures[1]
    /\ pc = "await"
    /\ other.pc = "await"

\* the JSON that ReplyFenced holds, written without fences, with double
\* quotes and without trailing commas
ReplyFencedClean ==
    << "{", Q, "answer", Q, ":", " ", Q, "Bern", Q, ",",
       " ", Q, "question", Q, ":", Q, "q1", Q, ",",
       " ", Q, "level", Q, ":", "[", Q, "easy", Q, "]", "}" >>
FencedValue == JsonParse(ReplyFencedClean)

\* C14: a reply that is JSON matching the shape, wrapped in code fences,
\* with single quotes as string delimiters and with trailing commas, is
\* sanitized to text that parses to the value of the equivalent clean JSON, and
\* the attempt succeeds with the records of that value.
C14_FencedReplyNormalized ==
    \A j \in 1..Len(replies) :
        (replies[j].ok /\ replies[j].body = ReplyFenced) =>
            /\ FencedValue.ok
            /\ \A p \in 1..Len(Sanitized[ReplyFenced]) :
                  Sanitized[ReplyFenced][p] \notin Fences \cup {"'"}
            /\ Parsed[ReplyFenced].ok
            /\ Parsed[ReplyFenced].val = FencedValue.val
            /\ pc = "returned"
            /\ j = Len(replies)
            /\ returned = Validate(<<FencedValue.val>>, args.output_format,
                                   args.default_category, args.output_value_only, 1).outputs

C14_Witness ==
    /\ pc = "returned"
    /\ args.output_format = ShapeQuiz
    /\ Len(replies) = 2
    /\ replies[2].body = ReplyFenced
    /\ FieldOf(returned[1], <<"level">>) = Str(<<"easy">>)

\* the index at which the span opened at p closes, counting nested openers
\* and closers of the same kind from index q on (0 if it never closes)
RECURSIVE BalancedEnd(_, _, _, _)
BalancedEnd(s, p, q, depth) ==
    IF q > Len(s) THEN 0
    ELSE IF s[q] = s[p] THEN BalancedEnd(s, p, q + 1, depth + 1)
    ELSE IF s[q] = (IF s[p] = "{" THEN "}" ELSE "]")
         THEN IF depth = 1 THEN q ELSE BalancedEnd(s, p, q + 1, depth - 1)
    ELSE BalancedEnd(s, p, q + 1, depth)

\* the first balanced {...} or [...] span of the text
FirstBalancedSpan(s) ==
    LET opens == {p \in 1..Len(s) : s[p] \in {"{", "["} /\ BalancedEnd(s, p, p + 1, 1) # 0}
        p == CHOOSE x \in opens : \A y \in opens : x <= y
    IN  IF opens = {} THEN <<>> ELSE SubSeq(s, p, BalancedEnd(s, p, p + 1, 1))

\* the text of reply j after the clean-up
SanitizedOf(j) == Sanitized[replies[j].body]

\* C15: when the sanitized reply holds a valid JSON object or array as its
\* first balanced span, the substring handed to the parser is exactly that
\* span, and not a longer one reaching to the last closing brace or bracket.
C15_FirstBalancedSpan ==
    \A j \in 1..Len(replies) :
        (replies[j].ok /\ JsonParse(FirstBalancedSpan(SanitizedOf(j))).ok) =>
            /\ OutcomeOf(j).stage # "match"
            /\ OutcomeOf(j).json = FirstBalancedSpan(SanitizedOf(j))

\* what each reply parses to as it came, without the clean-up
RawParsed == [raw \in AllReplies |-> JsonParse(raw)]

\* C16: for a reply that is already valid JSON, the text handed to the
\* parser denotes the same JSON value as the reply.
C16_CleanJsonUntouched ==
    \A j \in 1..Len(replies) :
        (replies[j].ok /\ RawParsed[replies[j].body].ok) =>
            /\ OutcomeOf(j).stage # "match"
            /\ JsonParse(OutcomeOf(j).json).ok
            /\ JsonParse(OutcomeOf(j).json).val = RawParsed[replies[j].body].val

\* every record of the reply is an object holding every key of the shape
\* that has no angle-bracket marker
CompleteRecords(j) ==
    /\ replies[j].ok
    /\ Parsed[replies[j].body].ok
    /\ \A n \in 1..Len(Outputs(Parsed[replies[j].body].val)) :
          \A key \in RequiredKeys(args.output_format) :
              Holds(Outputs(Parsed[replies[j].body].val)[n], key)

\* C17: with an empty default_category, a closed-set field of a returned
\* record is the considered value of the reply's field (its first element if it
\* was a sequence) whether or not that value is in the allowed set; and whatever
\* the closed-set fields hold, an attempt whose records are complete succeeds:
\* it is the last attempt of the call and is not followed by a retry.
C17_EnumMismatchKept ==
    /\ (pc = "returned" /\ args.default_category = <<>>) =>
          \A j \in 1..Len(returned) : \A m \in 1..Len(args.output_format.v) :
              LET key == args.output_format.v[m].k
                  want == args.output_format.v[m].val
              IN  (want.t = "arr" /\ Holds(returned[j], key)) =>
                      FieldOf(returned[j], key) = Considered(FieldOf(LastRecords[j], key))
    /\ \A j \in 1..Len(replies) :
          CompleteRecords(j) =>
              /\ Succeeded(j)
              /\ ~Failed(j)
              /\ j = Len(replies)
              /\ pc = "returned"
              /\ Len(calls) = j

C17_Witness ==
    /\ pc = "returned"
    /\ args.output_format = ShapeQuiz
    /\ args.default_category = <<>>
    /\ Len(replies) = 1
    /\ replies[1].body = ReplyQuizOne
    /\ ~Allowed(Arr(<<Str(<<"easy">>), Str(<<"hard">>)>>), Str(<<"odd">>))
    /\ FieldOf(returned[1], <<"level">>) = Str(<<"odd">>)

\* one step of the call in which a new attempt starts
AttemptStarts == Len(calls') = Len(calls) + 1

\* one step of the call in which the running attempt ends in the catch block
AttemptFails == Len(failures') = Len(failures) + 1

\* C18: when every provider call returns text or fails, and the function
\* runs on whenever it can, every call ends, with a result or with the
\* exhausted-retries error.  An attempt starts only when every earlier attempt
\* has had its reply and has been dealt with; the attempt that starts is number
\* i, below num_tries, and i is the count of the attempts made before; i never
\* decreases and goes up by exactly one with every failed attempt.
C18_Terminates ==
    /\ <>Terminated
    /\ [](pc = "thrown" => thrown = AllAttemptsFailed)
    /\ [](i <= args.num_tries /\ Len(calls) <= args.num_tries)
    /\ [][ /\ Len(calls') \in {Len(calls), Len(calls) + 1}
           /\ AttemptStarts =>
                 /\ Len(replies) = Len(calls)
                 /\ Len(failures) = Len(calls)
                 /\ i = Len(calls)
                 /\ i < args.num_tries
                 /\ i' = i
           /\ i' \in {i, i + 1}
           /\ AttemptFails <=> i' = i + 1 ]_vars

C18_Witness ==
    /\ pc = "returned"
    /\ args.num_tries = 3
    /\ Len(calls) = 3
    /\ i = 2
    /\ replies[1].ok
    /\ ~replies[2].ok

\* text is base with the insert put in at one place
InsertedInto(text, base, insert) ==
    \E p \in 0..Len(base) :
        text = SubSeq(base, 1, p) \o insert \o SubSeq(base, p + 1, Len(base))

\* C19: the prompt of the first attempt carries no error feedback; the
\* prompt of every later attempt is the prompt of the first attempt with one
\* feedback marker put into it, holding the error message of the attempt that
\* failed just before; so the system prompt, the format instructions and the
\* input items are the same on every attempt of a call.
C19_FeedbackOnlyDiffers ==
    \A c \in 1..Len(calls) :
        /\ c = 1 =>
              \A p \in 1..Len(calls[1].prompt) :
                  calls[1].prompt[p] # Head(FeedbackMarker(<<>>))
        /\ c > 1 =>
              /\ Len(failures) >= c - 1
              /\ InsertedInto(calls[c].prompt, calls[1].prompt,
                              FeedbackMarker(failures[c - 1]))
        /\ SubSeq(calls[c].prompt, 1, Len(args.system_prompt)) = args.system_prompt
        /\ Contains(calls[c].prompt, Stringify(args.output_format))
        /\ Contains(calls[c].prompt, <<"\n\nINPUT:\n">>)

C19_Witness ==
    /\ Len(calls) = 2
    /\ replies[1] = [ok |-> TRUE, body |-> ReplyProse]
    /\ failures[1] = NoJsonFound.message
    /\ Contains(calls[2].prompt, FeedbackMarker(NoJsonFound.message))
    /\ ~Contains(calls[1].prompt, FeedbackMarker(NoJsonFound.message))
    /\ Len(calls[2].prompt) = Len(calls[1].prompt) + Len(FeedbackMarker(NoJsonFound.message))

\* C20: a call with num_tries of 0 or less makes no provider call and
\* returns nothing: it is before the loop test or has thrown the
\* exhausted-retries error; and no call returns a result without a provider call
\* that returned text.
C20_NoTriesNoCall ==
    /\ args.num_tries <= 0 =>
          /\ calls = <<>>
          /\ replies = <<>>
          /\ failures = <<>>
          /\ i = 0
          /\ returned = <<>>
          /\ pc \in {"loop", "thrown"}
          /\ pc = "thrown" => thrown = AllAttemptsFailed
    /\ pc = "returned" =>
          /\ args.num_tries >= 1
          /\ Len(calls) >= 1
          /\ Len(replies) = Len(calls)
          /\ replies[Len(replies)].ok

C20_Witness ==
    /\ args.num_tries = -1
    /\ pc = "thrown"
    /\ thrown = AllAttemptsFailed
    /\ calls = <<>>

====
